---- MODULE Spec2Model ----
(***************************************************************************)
(* StressLab (src/stress_lab.py): the load-generation engine.              *)
(*                                                                         *)
(* run_test drives num_times sequential batches of requests_per_second     *)
(* concurrent make_request coroutines on one asyncio event loop, appends   *)
(* every result to the local accumulators and assigns them to self.stats   *)
(* after the loop.                                                         *)
(*                                                                         *)
(* Time.  time.time() is the variable now, counted in ticks;               *)
(* TicksPerSecond ticks make one second, so int(timestamp) is a division.  *)
(* Code between two awaits runs in zero time on the event loop: the clock  *)
(* advances (Tick) only while run_test is suspended in asyncio.gather      *)
(* waiting for the network, or in asyncio.sleep before its deadline.       *)
(* wait_time is held in ticks.                                             *)
(*                                                                         *)
(* Python's None is the value None (-1), outside every range of values     *)
(* the program computes; self.stats = None is the empty sequence and a     *)
(* published snapshot the one-element sequence holding it.                 *)
(***************************************************************************)
EXTENDS Integers, Sequences, FiniteSets, TLC

\* ---- bounds of the model ------------------------------------------------
\* A run issues at most MaxRequests requests, and at most MaxBodyRequests when
\* it reads the bodies (each such request has a read time and a size besides).
\* Under LiveSpec a run that reads the bodies issues at most MaxLiveBodyRequests.
\* A reused instance (SpecReuse) is run at most MaxRuns times and issues at
\* most MaxLifetimeRequests requests over all its runs.
MaxBatchSize == 2
MaxBatches == 3
MaxRequests == 4
MaxBodyRequests == 2
MaxLiveBodyRequests == 1
MaxRuns == 2
MaxLifetimeRequests == 2
MaxWait == 1
MaxLatency == 1
TicksPerSecond == 2
Epoch == 1

\* Status codes the server may answer with.
Statuses == {200, 201, 404}

\* Body lengths response.read() may return.
BodySizes == {0, 1}

None == -1

VARIABLES
    requests_per_second,   \* self.requests_per_second
    num_times,             \* self.num_times
    wait_time,             \* self.wait_time (ticks)
    ttfb_only,             \* self.ttfb_only
    self_stats,            \* self.stats: <<>> is None, <<snapshot>> once assigned
    pc,                    \* where run_test is
    now,                   \* time.time()
    stats,                 \* run_test's local stats (the four series)
    responses_per_second,  \* run_test's local responses_per_second
    start_timestamp,       \* run_test's local start_timestamp
    batch,                 \* iterations of the for loop begun so far
    tasks,                 \* every make_request coroutine launched by this run
    wake_at,               \* deadline of the pending asyncio.sleep
    batch_times,           \* per batch: when it was launched and when it joined
    run,                   \* calls of run_test on this instance so far
    plot                   \* what the last plot_results call did

vars == <<requests_per_second, num_times, wait_time, ttfb_only, self_stats, pc,
          now, stats, responses_per_second, start_timestamp, batch, tasks,
          wake_at, batch_times, run, plot>>

config == <<requests_per_second, num_times, wait_time, ttfb_only>>

\* ---- helpers ------------------------------------------------------------

\* defaultdict(list): every series reads as [] until appended to.
EmptyStats == [ttfb |-> <<>>, status |-> <<>>, timestamp |-> <<>>, response_size |-> <<>>]

\* defaultdict(int) with no key yet.
EmptyCounts == [s \in {} |-> 0]

\* Python's `a or b` on numbers.
Or(a, b) == IF a # 0 THEN a ELSE b

\* Mutant: round(x) instead of int(x).
IntSeconds_Round(ticks) == (2 * ticks + TicksPerSecond) \div (2 * TicksPerSecond)

\* int(x) of a non-negative number of ticks, in seconds.
IntSeconds(ticks) == ticks \div TicksPerSecond

\* `len(content) if content else None`; content is None or the body's length.
SizeOf(content) == IF content # None /\ content # 0 THEN content ELSE None

\* Mutant: the body is read whatever ttfb_only says.
ReadsBody_Always == TRUE

\* `content = None if self.ttfb_only else await response.read()`: is the body read?
ReadsBody == ~ttfb_only

\* Mutant: a session built with raise_for_status=True.
RaisesForStatus_ClientErrors(status) == status >= 400

\* ClientSession() is built without raise_for_status: no status raises.
RaisesForStatus(status) == FALSE

\* Mutant: `responses_per_second[second] = 1`.
Increment_Overwrite(counts, second) ==
    IF second \in DOMAIN counts
    THEN [counts EXCEPT ![second] = 1]
    ELSE counts @@ (second :> 1)

\* responses_per_second[second] += 1
Increment(counts, second) ==
    IF second \in DOMAIN counts
    THEN [counts EXCEPT ![second] = @ + 1]
    ELSE counts @@ (second :> 1)

\* Mutant: `if result["ttfb"]:` guards the ttfb append (a zero ttfb is falsy).
AddResult_SkipsZeroTtfb(acc, result) ==
    [stats |->
        [ttfb |-> IF result.ttfb # 0
                  THEN Append(acc.stats.ttfb, result.ttfb)
                  ELSE acc.stats.ttfb,
         status |-> Append(acc.stats.status, result.status),
         timestamp |-> Append(acc.stats.timestamp, result.timestamp),
         response_size |->
            IF result.response_size # None
            THEN Append(acc.stats.response_size, result.response_size)
            ELSE acc.stats.response_size],
     responses_per_second |->
        IF IntSeconds(result.timestamp) \in DOMAIN acc.responses_per_second
        THEN [acc.responses_per_second EXCEPT ![IntSeconds(result.timestamp)] = @ + 1]
        ELSE acc.responses_per_second @@ (IntSeconds(result.timestamp) :> 1)]

\* Mutant: only the successful outcomes are kept.
AddResult_SkipNon200(acc, result) ==
    IF result.status # 200 THEN acc
    ELSE
    [stats |->
        [ttfb |-> Append(acc.stats.ttfb, result.ttfb),
         status |-> Append(acc.stats.status, result.status),
         timestamp |-> Append(acc.stats.timestamp, result.timestamp),
         response_size |->
            IF result.response_size # None
            THEN Append(acc.stats.response_size, result.response_size)
            ELSE acc.stats.response_size],
     responses_per_second |->
        Increment(acc.responses_per_second, IntSeconds(result.timestamp))]

\* The body of `for result in results`.
AddResult(acc, result) ==
    [stats |->
        [ttfb |-> Append(acc.stats.ttfb, result.ttfb),
         status |-> Append(acc.stats.status, result.status),
         timestamp |-> Append(acc.stats.timestamp, result.timestamp),
         response_size |->
            IF result.response_size # None
            THEN Append(acc.stats.response_size, result.response_size)
            ELSE acc.stats.response_size],
     responses_per_second |->
        Increment(acc.responses_per_second, IntSeconds(result.timestamp))]

RECURSIVE Accumulate(_, _)
Accumulate(acc, results) ==
    IF results = <<>> THEN acc
    ELSE Accumulate(AddResult(acc, Head(results)), Tail(results))

\* The coroutines of the batch being gathered, in argument order.
IsCurrent(t) == t.batch = batch
CurrentTasks == SelectSeq(tasks, IsCurrent)

\* The dict a finished make_request returned.
ResultOf(t) == [ttfb |-> t.ttfb, status |-> t.status, timestamp |-> t.timestamp,
                response_size |-> t.response_size]

\* Mutant: the results in the order the coroutines finished (as_completed).
GatherResults_AsCompleted(ts) ==
    LET n == Len(ts)
        p == CHOOSE q \in [1..n -> 1..n] :
                /\ \A a, b \in 1..n : a # b => q[a] # q[b]
                /\ \A a, b \in 1..n : a < b => ts[q[a]].timestamp <= ts[q[b]].timestamp
    IN [j \in 1..n |-> ResultOf(ts[p[j]])]

\* `results = await asyncio.gather(*tasks)`: the results in argument order.
GatherResults(ts) == [j \in DOMAIN ts |-> ResultOf(ts[j])]

\* Mutant: asyncio.wait(..., timeout=...): the join gives up on slow requests.
Joined_OrTimeout(ts) ==
    \/ \A j \in DOMAIN ts : ts[j].state = "done"
    \/ \E j \in DOMAIN ts : now - ts[j].start >= MaxLatency

\* Mutant: gather(..., return_exceptions=True): a raised coroutine counts as finished.
Joined_ReturnExceptions(ts) == \A j \in DOMAIN ts : ts[j].state \in {"done", "raised"}

\* Mutant: asyncio.wait(..., return_when=FIRST_COMPLETED).
Joined_FirstCompleted(ts) == \E j \in DOMAIN ts : ts[j].state = "done"

\* asyncio.gather(*tasks): returns once every coroutine has returned ...
Joined(ts) == \A j \in DOMAIN ts : ts[j].state = "done"

\* ... and raises as soon as one of them raised.
Failed(ts) == \E j \in DOMAIN ts : ts[j].state = "raised"

\* A coroutine created by the list comprehension and started by gather.
NewTask == [batch |-> batch + 1, state |-> "pending", start |-> now,
            response |-> None, ttfb |-> None, status |-> None,
            timestamp |-> None, response_size |-> None,
            transport_error |-> FALSE]

\* Mutant: the delay is counted from the batch's launch.
SleepDeadline_FromBatchStart == batch_times[batch].start + wait_time

\* asyncio.sleep(self.wait_time) is due wait_time after the call.
SleepDeadline == now + wait_time

\* Mutant: a `finally:` that assigns what was accumulated so far.
StatsOnError_Partial ==
    <<[ttfb |-> stats.ttfb, status |-> stats.status, timestamp |-> stats.timestamp,
       response_size |-> stats.response_size,
       total_duration |-> now - start_timestamp,
       responses_per_second |-> responses_per_second]>>

\* The exception leaves run_test before line 114: self.stats keeps its value.
StatsOnError == self_stats

\* No plot_results call has returned since the last run_test call.
NoPlot == [outcome |-> "none", total |-> None, success |-> None, failure |-> None]

\* ---- initial state: after __init__ ---------------------------------------
Init ==
    /\ requests_per_second \in 0..MaxBatchSize
    /\ num_times \in 0..MaxBatches
    /\ wait_time \in 0..MaxWait
    /\ ttfb_only \in BOOLEAN
    /\ requests_per_second * num_times <=
            (IF ttfb_only THEN MaxRequests ELSE MaxBodyRequests)
    /\ self_stats = <<>>
    /\ pc = "idle"
    /\ now = Epoch
    /\ stats = EmptyStats
    /\ responses_per_second = EmptyCounts
    /\ start_timestamp = None
    /\ batch = 0
    /\ tasks = <<>>
    /\ wake_at = None
    /\ batch_times = <<>>
    /\ run = 0
    /\ plot = NoPlot

\* ---- run_test -----------------------------------------------------------

\* Lines 87-92: the accumulators, the start reference, the session.
RunTest ==
    /\ pc = "idle"
    /\ stats' = EmptyStats
    /\ responses_per_second' = EmptyCounts
    /\ start_timestamp' = now
    /\ batch' = 0
    /\ tasks' = <<>>
    /\ batch_times' = <<>>
    /\ pc' = "loop"
    /\ run' = run + 1
    /\ plot' = NoPlot
    /\ UNCHANGED <<config, self_stats, now, wake_at>>

\* Mutant: `range(self.num_times + 1)`.
LaunchBatch_OneMore ==
    /\ pc = "loop"
    /\ batch <= num_times
    /\ batch' = batch + 1
    /\ tasks' = tasks \o [j \in 1..requests_per_second |->
                    [batch |-> batch + 1, state |-> "pending", start |-> now,
                     response |-> None, ttfb |-> None, status |-> None,
                     timestamp |-> None, response_size |-> None,
                     transport_error |-> FALSE]]
    /\ batch_times' = Append(batch_times, [start |-> now, join |-> None])
    /\ pc' = "gather"
    /\ UNCHANGED <<config, run, plot, self_stats, now, stats, responses_per_second,
                   start_timestamp, wake_at>>

\* Lines 93-98: one more iteration; the batch's coroutines start together.
LaunchBatch ==
    /\ pc = "loop"
    /\ batch < num_times
    /\ batch' = batch + 1
    /\ tasks' = tasks \o [j \in 1..requests_per_second |-> NewTask]
    /\ batch_times' = Append(batch_times, [start |-> now, join |-> None])
    /\ pc' = "gather"
    /\ UNCHANGED <<config, run, plot, self_stats, now, stats, responses_per_second,
                   start_timestamp, wake_at>>

\* Lines 71-81: the response headers of request t arrive with `status`.
Respond(t, status) ==
    /\ pc = "gather"
    /\ tasks[t].state = "pending"
    /\ LET ttfb == now - tasks[t].start IN
       tasks' = [tasks EXCEPT ![t] =
            IF RaisesForStatus(status)
            THEN [@ EXCEPT !.state = "raised", !.response = status]
            ELSE IF ReadsBody
            THEN [@ EXCEPT !.state = "reading", !.response = status, !.ttfb = ttfb]
            ELSE [@ EXCEPT !.state = "done", !.response = status, !.ttfb = ttfb,
                           !.status = status,
                           !.timestamp = now - Or(start_timestamp, tasks[t].start),
                           !.response_size = SizeOf(None)]]
    /\ UNCHANGED <<config, run, plot, self_stats, pc, now, stats, responses_per_second,
                   start_timestamp, batch, wake_at, batch_times>>

\* Mutant: ttfb is taken after response.read().
ReadBody_RemeasuresTtfb(t, size) ==
    /\ pc = "gather"
    /\ tasks[t].state = "reading"
    /\ tasks' = [tasks EXCEPT ![t] =
            [@ EXCEPT !.state = "done",
                      !.ttfb = now - tasks[t].start,
                      !.status = tasks[t].response,
                      !.timestamp = now - (IF start_timestamp # 0
                                           THEN start_timestamp ELSE tasks[t].start),
                      !.response_size = IF size # None /\ size # 0 THEN size ELSE None]]
    /\ UNCHANGED <<config, run, plot, self_stats, pc, now, stats, responses_per_second,
                   start_timestamp, batch, wake_at, batch_times>>

\* Lines 73-81: response.read() of request t returns `size` bytes.
ReadBody(t, size) ==
    /\ pc = "gather"
    /\ tasks[t].state = "reading"
    /\ tasks' = [tasks EXCEPT ![t] =
            [@ EXCEPT !.state = "done",
                      !.status = tasks[t].response,
                      !.timestamp = now - Or(start_timestamp, tasks[t].start),
                      !.response_size = SizeOf(size)]]
    /\ UNCHANGED <<config, run, plot, self_stats, pc, now, stats, responses_per_second,
                   start_timestamp, batch, wake_at, batch_times>>

\* Lines 71-73: session.request or response.read raises (refused, reset, DNS).
TransportError(t) ==
    /\ pc = "gather"
    /\ tasks[t].state \in {"pending", "reading"}
    /\ tasks' = [tasks EXCEPT ![t] =
            [@ EXCEPT !.state = "raised", !.transport_error = TRUE]]
    /\ UNCHANGED <<config, run, plot, self_stats, pc, now, stats, responses_per_second,
                   start_timestamp, batch, wake_at, batch_times>>

\* Lines 98-110: gather returns the results in argument order, the for loop
\* accumulates them, and run_test suspends in asyncio.sleep.
GatherReturn ==
    /\ pc = "gather"
    /\ Joined(CurrentTasks)
    /\ LET results == GatherResults(CurrentTasks)
           acc == Accumulate([stats |-> stats,
                              responses_per_second |-> responses_per_second],
                             results)
       IN /\ stats' = acc.stats
          /\ responses_per_second' = acc.responses_per_second
    /\ batch_times' = [batch_times EXCEPT ![batch].join = now]
    /\ wake_at' = SleepDeadline
    /\ pc' = "sleep"
    /\ UNCHANGED <<config, run, plot, self_stats, now, start_timestamp, batch, tasks>>

\* Line 98 raising: the exception leaves the loop, `async with` closes the
\* session (its connections with it) and run_test ends with the exception.
GatherRaise ==
    /\ pc = "gather"
    /\ Failed(CurrentTasks)
    /\ tasks' = [t \in DOMAIN tasks |->
                    IF tasks[t].state \in {"pending", "reading"}
                    THEN [tasks[t] EXCEPT !.state = "cancelled"]
                    ELSE tasks[t]]
    /\ self_stats' = StatsOnError
    /\ pc' = "raised"
    /\ UNCHANGED <<config, run, plot, now, stats, responses_per_second, start_timestamp,
                   batch, wake_at, batch_times>>

\* Line 110: the sleep is over; back to the head of the loop.
Wake ==
    /\ pc = "sleep"
    /\ now >= wake_at
    /\ pc' = "loop"
    /\ UNCHANGED <<config, run, plot, self_stats, now, stats, responses_per_second,
                   start_timestamp, batch, tasks, wake_at, batch_times>>

\* Lines 112-114: the loop is exhausted; the snapshot is assigned.
Publish ==
    /\ pc = "loop"
    /\ batch >= num_times
    /\ self_stats' = <<[ttfb |-> stats.ttfb,
                        status |-> stats.status,
                        timestamp |-> stats.timestamp,
                        response_size |-> stats.response_size,
                        total_duration |-> now - start_timestamp,
                        responses_per_second |-> responses_per_second]>>
    /\ pc' = "done"
    /\ UNCHANGED <<config, run, plot, now, stats, responses_per_second, start_timestamp,
                   batch, tasks, wake_at, batch_times>>

\* The clock advances while run_test waits: for the network (each request is
\* answered within MaxLatency of its launch, or never), or for its sleep.
Tick ==
    /\ \/ /\ pc = "gather"
          /\ ~Joined(CurrentTasks)
          /\ ~Failed(CurrentTasks)
          /\ now - batch_times[batch].start < MaxLatency
       \/ /\ pc = "sleep"
          /\ now < wake_at
    /\ now' = now + 1
    /\ UNCHANGED <<config, run, plot, self_stats, pc, stats, responses_per_second,
                   start_timestamp, batch, tasks, wake_at, batch_times>>

\* ---- plot_results --------------------------------------------------------

\* `if not self.stats`: None is falsy; the dict run_test assigned always holds
\* the keys total_duration and responses_per_second, so it is truthy.
Truthy(st) == st # <<>>

\* list.count(x)
Count(seq, x) == Cardinality({i \in DOMAIN seq : seq[i] = x})

\* Mutant: every 2xx status counts as a success.
SuccessCount_Any2xx(status) ==
    Cardinality({i \in DOMAIN status : status[i] >= 200 /\ status[i] < 300})

\* `self.stats["status"].count(200)`
SuccessCount(status) == Count(status, 200)

\* Lines 128-181: what a plot_results call does with self.stats.  Without a
\* snapshot it prints the notice and returns.  With one it builds the summary
\* table; statistics.mean, max, min and median raise on an empty ttfb series.
\* (total_duration, the divisor at line 173, is a positive float in a real run
\* even where it is less than one tick here.)
PlotOutcome ==
    IF ~Truthy(self_stats)
    THEN [outcome |-> "no_results", total |-> None, success |-> None, failure |-> None]
    ELSE IF Len(self_stats[1].ttfb) = 0
    THEN [outcome |-> "raised", total |-> None, success |-> None, failure |-> None]
    ELSE [outcome |-> "figure",
          total |-> Len(self_stats[1].ttfb),
          success |-> SuccessCount(self_stats[1].status),
          failure |-> Len(self_stats[1].ttfb) - SuccessCount(self_stats[1].status)]

\* plot_results is synchronous: it is called while no run_test is running.
PlotResults ==
    /\ pc \in {"idle", "done", "raised"}
    /\ plot' = PlotOutcome
    /\ UNCHANGED <<config, run, self_stats, pc, now, stats, responses_per_second,
                   start_timestamp, batch, tasks, wake_at, batch_times>>

\* Mutant: run_test starts with `self.stats = None`.
RunAgain_ClearsStats ==
    /\ pc \in {"done", "raised"}
    /\ run < MaxRuns
    /\ (run + 1) * requests_per_second * num_times <= MaxLifetimeRequests
    /\ stats' = [ttfb |-> <<>>, status |-> <<>>, timestamp |-> <<>>, response_size |-> <<>>]
    /\ responses_per_second' = [s \in {} |-> 0]
    /\ start_timestamp' = now
    /\ batch' = 0
    /\ tasks' = <<>>
    /\ batch_times' = <<>>
    /\ pc' = "loop"
    /\ run' = run + 1
    /\ plot' = [outcome |-> "none", total |-> None, success |-> None, failure |-> None]
    /\ self_stats' = <<>>
    /\ UNCHANGED <<config, now, wake_at>>

\* run_test called again on the same instance, after a run that ended (lines
\* 87-92 once more; self.stats is not touched).
RunAgain ==
    /\ pc \in {"done", "raised"}
    /\ run < MaxRuns
    /\ (run + 1) * requests_per_second * num_times <= MaxLifetimeRequests
    /\ stats' = EmptyStats
    /\ responses_per_second' = EmptyCounts
    /\ start_timestamp' = now
    /\ batch' = 0
    /\ tasks' = <<>>
    /\ batch_times' = <<>>
    /\ pc' = "loop"
    /\ run' = run + 1
    /\ plot' = NoPlot
    /\ UNCHANGED <<config, self_stats, now, wake_at>>

Next ==
    \/ RunTest
    \/ LaunchBatch
    \/ \E t \in DOMAIN tasks, status \in Statuses : Respond(t, status)
    \/ \E t \in DOMAIN tasks, size \in BodySizes : ReadBody(t, size)
    \/ \E t \in DOMAIN tasks : TransportError(t)
    \/ GatherReturn
    \/ GatherRaise
    \/ Wake
    \/ Publish
    \/ Tick
    \/ PlotResults

Spec == Init /\ [][Next]_vars

\* A run whose steps are taken: the event loop runs what is ready, time
\* passes, and the network answers or fails every request.
LiveInit ==
    /\ Init
    /\ ttfb_only \/ requests_per_second * num_times <= MaxLiveBodyRequests

LiveSpec == LiveInit /\ [][Next]_vars /\ WF_vars(Next)

\* The instance reused: run_test may be called again after a run has ended.
NextReuse ==
    \/ Next
    \/ RunAgain

SpecReuse == Init /\ [][NextReuse]_vars

\* ---- properties -----------------------------------------------------------

\* The published snapshot, and the number of requests the configuration asks for.
Snapshot == self_stats[1]
Published == self_stats # <<>>
Requested == requests_per_second * num_times

\* How often x occurs in the sequence seq.
Occurrences(seq, x) == Cardinality({i \in DOMAIN seq : seq[i] = x})

\* The outcomes of a set of series, as <<ttfb, status, timestamp>> triples.
OutcomesOf(st) == [i \in DOMAIN st.ttfb |-> <<st.ttfb[i], st.status[i], st.timestamp[i]>>]
TaskOutcomes == [t \in DOMAIN tasks |->
                    <<tasks[t].ttfb, tasks[t].status, tasks[t].timestamp>>]

RECURSIVE SumOver(_, _)
SumOver(counts, keys) ==
    IF keys = {} THEN 0
    ELSE LET s == CHOOSE x \in keys : TRUE
         IN counts[s] + SumOver(counts, keys \ {s})
SumValues(counts) == SumOver(counts, DOMAIN counts)

\* C1: a run in which no request raised publishes a snapshot of exactly
\* requests_per_second * num_times outcomes: the ttfb, status and timestamp
\* series have that length, and every request's outcome is in it as often as
\* requests returned it (none dropped, none duplicated).
C1_SnapshotHoldsEveryOutcome ==
    pc = "done" =>
        /\ Published
        /\ Len(Snapshot.ttfb) = Requested
        /\ Len(Snapshot.status) = Requested
        /\ Len(Snapshot.timestamp) = Requested
        /\ Len(tasks) = Requested
        /\ \A t \in DOMAIN tasks :
              Occurrences(OutcomesOf(Snapshot), TaskOutcomes[t])
                = Occurrences(TaskOutcomes, TaskOutcomes[t])

C1_Witness ==
    /\ pc = "done"
    /\ requests_per_second = 2
    /\ num_times = 2
    /\ Len(Snapshot.ttfb) = 4
    /\ \E i \in DOMAIN Snapshot.status : Snapshot.status[i] # 200

\* C2: a run in which a request raised a transport error publishes nothing:
\* self.stats stays None, though outcomes of earlier batches were accumulated;
\* a snapshot that exists holds requests_per_second * num_times outcomes.
C2_NoPartialSnapshot ==
    /\ (\E t \in DOMAIN tasks : tasks[t].state = "raised") => ~Published
    /\ pc = "raised" => ~Published
    /\ Published => /\ pc = "done"
                    /\ Len(Snapshot.ttfb) = Requested

C2_Witness ==
    /\ pc = "raised"
    /\ Len(stats.ttfb) > 0
    /\ ~Published

\* C3: once a request of batch k has raised, no request of a later batch exists,
\* run_test is not (and will not be) sleeping: it is still in gather or has
\* ended with the error; and nothing of batch k has been accumulated.
C3_FailureEndsTheRun ==
    \A t \in DOMAIN tasks :
        tasks[t].state = "raised" =>
            /\ \A u \in DOMAIN tasks : tasks[u].batch <= tasks[t].batch
            /\ batch = tasks[t].batch
            /\ pc \in {"gather", "raised"}
            /\ batch_times[batch].join = None
            /\ Len(stats.ttfb) = (tasks[t].batch - 1) * requests_per_second

C3_Witness ==
    /\ pc = "raised"
    /\ num_times = 3
    /\ batch = 2
    /\ Len(stats.ttfb) = requests_per_second
    /\ requests_per_second > 0

\* C4: whenever a request of a later batch exists, every request of each
\* earlier batch has returned and its batch has been accumulated; inside a
\* batch the requests complete in any order.
C4_BatchesInSequence ==
    \A t, u \in DOMAIN tasks :
        tasks[t].batch < tasks[u].batch =>
            /\ tasks[t].state = "done"
            /\ Len(stats.ttfb) >= tasks[t].batch * requests_per_second
            /\ batch_times[tasks[t].batch].join # None
            /\ batch_times[tasks[t].batch].join <= tasks[u].start

C4_Witness ==
    /\ Len(tasks) = 4
    /\ tasks[1].batch = 1
    /\ tasks[2].batch = 1
    /\ tasks[2].timestamp < tasks[1].timestamp
    /\ tasks[3].batch = 2
    /\ tasks[3].state = "pending"
    /\ tasks[4].state = "done"

\* C5: the values of responses_per_second sum to the number of outcomes, in the
\* accumulators after every batch and in the published snapshot.
C5_BucketsSumToOutcomes ==
    /\ SumValues(responses_per_second) = Len(stats.ttfb)
    /\ Published => SumValues(Snapshot.responses_per_second) = Len(Snapshot.ttfb)

C5_Witness ==
    /\ Published
    /\ Cardinality(DOMAIN Snapshot.responses_per_second) >= 2
    /\ \E s \in DOMAIN Snapshot.responses_per_second :
          Snapshot.responses_per_second[s] >= 2

\* C6: when ttfb_only is false every outcome carries a response size: the
\* response_size series is as long as the ttfb series (empty bodies included).
C6_SizeForEveryOutcome ==
    ~ttfb_only =>
        /\ Len(stats.response_size) = Len(stats.ttfb)
        /\ Published => Len(Snapshot.response_size) = Len(Snapshot.ttfb)

\* C7: when ttfb_only is true no body is read, every request's response_size is
\* None and the response_size series stays empty, in the accumulators and in the
\* snapshot.
C7_TtfbOnlyHasNoSizes ==
    ttfb_only =>
        /\ \A t \in DOMAIN tasks :
              /\ tasks[t].state # "reading"
              /\ tasks[t].response_size = None
        /\ stats.response_size = <<>>
        /\ Published => Snapshot.response_size = <<>>

C7_Witness ==
    /\ ttfb_only
    /\ pc = "done"
    /\ num_times >= 2
    /\ Len(Snapshot.ttfb) = 4

\* C8: total_duration is the interval from the first batch's launch to the last
\* batch's join (no delay after the last batch is counted).
C8_DurationEndsAtLastJoin ==
    (pc = "done" /\ num_times >= 1 /\ requests_per_second >= 1) =>
        Snapshot.total_duration
            = batch_times[num_times].join - batch_times[1].start

\* C9: every batch after the first is launched exactly wait_time after the
\* join of the batch before it, so two consecutive launches are the batch's
\* duration plus wait_time apart.
C9_DelayFromJoin ==
    \A k \in DOMAIN batch_times :
        k + 1 \in DOMAIN batch_times =>
            /\ batch_times[k].join # None
            /\ batch_times[k + 1].start = batch_times[k].join + wait_time
            /\ batch_times[k + 1].start - batch_times[k].start
                 = (batch_times[k].join - batch_times[k].start) + wait_time

C9_Witness ==
    /\ Len(batch_times) >= 2
    /\ wait_time > 0
    /\ batch_times[1].join > batch_times[1].start
    /\ batch_times[2].start - batch_times[1].start # TicksPerSecond + wait_time

\* C10: a response with any status code is a normal outcome: the request
\* returns that code, only a transport error makes a request raise or ends the
\* run, and the snapshot holds every answered status, one per request.
C10_AnyStatusIsAnOutcome ==
    /\ \A t \in DOMAIN tasks :
          /\ tasks[t].state = "raised" => tasks[t].transport_error
          /\ tasks[t].state = "done" => tasks[t].status = tasks[t].response
    /\ pc = "raised" => \E t \in DOMAIN tasks : tasks[t].transport_error
    /\ pc = "done" =>
          /\ Len(Snapshot.status) = Requested
          /\ \A code \in Statuses :
                Occurrences(Snapshot.status, code)
                  = Cardinality({t \in DOMAIN tasks : tasks[t].response = code})

C10_Witness ==
    /\ pc = "done"
    /\ Requested >= 2
    /\ \E i \in DOMAIN Snapshot.status : Snapshot.status[i] = 404
    /\ \E i \in DOMAIN Snapshot.status : Snapshot.status[i] = 201

\* C11: within a batch the outcomes are in the series in the order in which the
\* responses arrived, and batch k's outcomes precede batch k+1's: every outcome
\* was taken no earlier than the outcome before it in the series.
C11_ArrivalOrder ==
    \A i, j \in DOMAIN stats.timestamp :
        i < j => stats.timestamp[i] <= stats.timestamp[j]

\* C11, amended: the outcomes are in the series in the order in which the
\* requests were launched (gather's argument order), whatever order the
\* responses arrived in, and batch k's outcomes precede batch k+1's.
C11_LaunchOrder ==
    /\ Len(stats.ttfb) <= Len(tasks)
    /\ \A i \in DOMAIN stats.ttfb :
          /\ stats.ttfb[i] = tasks[i].ttfb
          /\ stats.status[i] = tasks[i].status
          /\ stats.timestamp[i] = tasks[i].timestamp
    /\ \A t, u \in DOMAIN tasks : t < u => tasks[t].batch <= tasks[u].batch
    /\ Published => /\ Snapshot.ttfb = stats.ttfb
                    /\ Snapshot.status = stats.status
                    /\ Snapshot.timestamp = stats.timestamp

C11_Witness ==
    /\ Len(stats.ttfb) >= 2
    /\ tasks[1].batch = tasks[2].batch
    /\ tasks[2].timestamp < tasks[1].timestamp
    /\ stats.timestamp[1] > stats.timestamp[2]

\* C12: plot_results on a snapshot whose ttfb series is empty reports that
\* there is no data and returns; it does not raise.
C12_EmptySeriesIsReported ==
    (Published /\ Len(Snapshot.ttfb) = 0) => plot.outcome \in {"none", "no_results"}

\* C13: in the summary, success is the number of statuses equal to 200 (a 201
\* is a failure), failure is the number of the others, and together they are
\* the number of outcomes.
C13_SuccessIsExactly200 ==
    plot.outcome = "figure" =>
        /\ plot.total = Len(Snapshot.status)
        /\ plot.success = Cardinality({i \in DOMAIN Snapshot.status : Snapshot.status[i] = 200})
        /\ plot.failure = Cardinality({i \in DOMAIN Snapshot.status : Snapshot.status[i] # 200})
        /\ plot.success + plot.failure = plot.total

C13_Witness ==
    /\ plot.outcome = "figure"
    /\ plot.success >= 1
    /\ \E i \in DOMAIN Snapshot.status : Snapshot.status[i] = 201
    /\ \E i \in DOMAIN Snapshot.status : Snapshot.status[i] = 404

\* C14: as long as a request of a batch has not completed, run_test stays in
\* that batch's gather: no later batch exists, nothing of the batch is
\* accumulated (completed siblings included) and nothing is published.
C14_HungRequestStallsTheRun ==
    \A t \in DOMAIN tasks :
        tasks[t].state \in {"pending", "reading"} =>
            /\ pc = "gather"
            /\ batch = tasks[t].batch
            /\ \A u \in DOMAIN tasks : tasks[u].batch <= tasks[t].batch
            /\ Len(stats.ttfb) = (tasks[t].batch - 1) * requests_per_second
            /\ batch_times[batch].join = None
            /\ ~Published

C14_Witness ==
    /\ Len(tasks) = 2
    /\ num_times = 2
    /\ tasks[1].state = "done"
    /\ tasks[2].state = "pending"
    /\ now - tasks[2].start >= MaxLatency
    /\ stats.ttfb = <<>>

\* Whether counts is the histogram of the timestamps by whole second.
IsHistogram(counts, timestamps) ==
    /\ \A s \in DOMAIN counts :
          /\ counts[s] >= 1
          /\ counts[s] = Cardinality({i \in DOMAIN timestamps :
                            /\ s * TicksPerSecond <= timestamps[i]
                            /\ timestamps[i] < (s + 1) * TicksPerSecond})
    /\ \A i \in DOMAIN timestamps :
          \E s \in DOMAIN counts :
              /\ s * TicksPerSecond <= timestamps[i]
              /\ timestamps[i] < (s + 1) * TicksPerSecond

\* C15: responses_per_second[s] is the number of accumulated outcomes whose
\* timestamp has integer part s, and a second without outcome is no key.
C15_BucketsAreFloorSeconds ==
    /\ IsHistogram(responses_per_second, stats.timestamp)
    /\ Published => IsHistogram(Snapshot.responses_per_second, Snapshot.timestamp)

C15_Witness ==
    /\ Published
    /\ \E s \in DOMAIN Snapshot.responses_per_second :
          Snapshot.responses_per_second[s] >= 2
    /\ \E i \in DOMAIN Snapshot.timestamp : Snapshot.timestamp[i] % TicksPerSecond # 0
    /\ \E s \in 0..(Snapshot.total_duration \div TicksPerSecond) :
          s \notin DOMAIN Snapshot.responses_per_second

\* C16: ttfb is fixed when the headers arrive (now minus the request's start)
\* and the body read does not change it; the timestamp is taken when the
\* request returns, after the body read, relative to start_timestamp; every
\* accumulated outcome has timestamp >= ttfb.
C16_TtfbExcludesBodyRead ==
    [][/\ \A t \in DOMAIN tasks :
             t \in DOMAIN tasks' =>
                /\ (tasks[t].state = "pending" /\ tasks'[t].state \in {"reading", "done"})
                      => tasks'[t].ttfb = now - tasks[t].start
                /\ (tasks[t].state = "reading" /\ tasks'[t].state = "done")
                      => tasks'[t].ttfb = tasks[t].ttfb
                /\ (tasks[t].state # "done" /\ tasks'[t].state = "done")
                      => /\ tasks'[t].timestamp = now - start_timestamp
                         /\ tasks'[t].timestamp >= tasks'[t].ttfb
       /\ \A i \in DOMAIN stats'.ttfb : stats'.timestamp[i] >= stats'.ttfb[i]
      ]_vars

C16_Witness ==
    /\ ~ttfb_only
    /\ \E i \in DOMAIN stats.ttfb :
          /\ tasks[i].state = "done"
          /\ stats.ttfb[i] = tasks[i].ttfb
          /\ stats.timestamp[i] > (tasks[i].start - start_timestamp) + stats.ttfb[i]
          /\ IntSeconds(stats.timestamp[i])
                # IntSeconds((tasks[i].start - start_timestamp) + stats.ttfb[i])

\* C17: when the steps of the run are taken and no request raises a transport
\* error, run_test ends with a published snapshot; it launches batches of
\* exactly requests_per_second requests, never more than num_times of them,
\* and exactly num_times by the time it has published.
C17_RunTerminates ==
    /\ <>(pc = "done" \/ \E t \in DOMAIN tasks : tasks[t].transport_error)
    /\ [](/\ batch <= num_times
          /\ Len(tasks) = batch * requests_per_second
          /\ \A k \in 1..batch :
                Cardinality({t \in DOMAIN tasks : tasks[t].batch = k})
                    = requests_per_second
          /\ pc = "done" => /\ Published
                            /\ batch = num_times
                            /\ Len(tasks) = Requested)

C17_Witness ==
    /\ pc = "done"
    /\ Published
    /\ num_times = 2
    /\ requests_per_second = 2
    /\ Len(tasks) = 4

\* Whether the series of st agree in length, hold whole batches, and hold no
\* more sizes than outcomes.
SeriesConsistent(st) ==
    /\ Len(st.status) = Len(st.ttfb)
    /\ Len(st.timestamp) = Len(st.ttfb)
    /\ \E k \in 0..num_times : Len(st.ttfb) = k * requests_per_second
    /\ Len(st.response_size) <= Len(st.ttfb)

\* C18: in every state the ttfb, status and timestamp series have one length, a
\* multiple of requests_per_second, and response_size is no longer: in the
\* accumulators and in the snapshot.
C18_SeriesLengthsAgree ==
    /\ SeriesConsistent(stats)
    /\ Published => SeriesConsistent(Snapshot)

C18_Witness ==
    /\ ~ttfb_only
    /\ requests_per_second = 2
    /\ pc = "sleep"
    /\ Len(stats.ttfb) = 2
    /\ Len(stats.response_size) = 1

\* C19: self.stats changes only in the step that ends a run after its last
\* batch, where run_test's accumulators are assigned to it whole; it is None
\* until a first run has done so; a run that ends with an error leaves it as
\* it was, and plot_results then still finds the earlier snapshot.
C19_PublishedOnlyAtRunEnd ==
    [][/\ self_stats' # self_stats =>
             /\ pc = "loop"
             /\ batch = num_times
             /\ pc' = "done"
       /\ (pc # "done" /\ pc' = "done") =>
             /\ self_stats' # <<>>
             /\ self_stats'[1].ttfb = stats.ttfb
             /\ self_stats'[1].status = stats.status
             /\ self_stats'[1].timestamp = stats.timestamp
             /\ self_stats'[1].responses_per_second = responses_per_second
             /\ Len(self_stats'[1].ttfb) = Requested
       /\ pc' = "raised" => self_stats' = self_stats
       /\ (run' <= 1 /\ pc' # "done") => self_stats' = <<>>
       /\ (pc = "raised" /\ pc' = "raised" /\ self_stats # <<>> /\ plot' # plot) =>
             /\ plot'.outcome \in {"figure", "raised"}
             /\ plot'.outcome = "figure" => plot'.total = Len(self_stats[1].ttfb)
      ]_vars

C19_Witness ==
    /\ run = 2
    /\ pc = "raised"
    /\ Published
    /\ Len(Snapshot.ttfb) = 1
    /\ Len(stats.ttfb) = 0
    /\ plot.outcome = "figure"
    /\ plot.total = 1

====
